---- MODULE Spec2Model ----
(***************************************************************************)
(* Model of docinventory.py: the DataStore path mapping, the per-URL       *)
(* shelves under the cache directory, the global index shelf, and the      *)
(* DocInventory operations add_url and lookup.                             *)
(*                                                                         *)
(* A URL is http://h/<segs>: the sequence of the components of its path    *)
(* after the leading "/" (an empty last component is a trailing slash).    *)
(* The file system below cache/http/h/80 is a map from directory-entry     *)
(* names (sequences of non-empty components) to nodes.  The application's  *)
(* base directory, which holds the gindex shelf, is taken to exist.        *)
(***************************************************************************)
EXTENDS Integers, Sequences, FiniteSets, TLC

\* Number of add_url calls followed.
MaxCalls == 3

\* DocInventory instances (processes) sharing one base directory.
Inst == {1, 2}

\* The urls add_url is called with: http://h/a, http://h/a/ (trailing slash),
\* http://h/a/b (below the first), http://h/b, http://h//a (empty component).
URLs == {<<"a">>, <<"a", "">>, <<"a", "b">>, <<"b">>, <<"", "a">>}

NoUrl == <<>>

Names == {"Config", "foo", "nonexistent"}

\* Bodies of the inventory documents the remote side may serve:
\* doctype -> names recorded under it.
Bodies ==
    { [t \in {"py:class", "py:module"} |-> {"Config"}],
      [t \in {"py:function", "py:class"} |->
          IF t = "py:function" THEN {"foo"} ELSE {"Config", "foo"}] }

Headers == {"# Sphinx inventory version 1", "# Sphinx inventory version 2",
            "# not an inventory"}

\* What urlopen may give: a transport error or a document.
Responses ==
    {[ok |-> FALSE, line |-> "", body |-> b] : b \in {CHOOSE b \in Bodies : TRUE}}
    \cup {[ok |-> TRUE, line |-> h, body |-> b] : h \in Headers, b \in Bodies}

EmptyInv == [t \in {} |-> {}]

-----------------------------------------------------------------------------
(* DataStore.local_path and the os.path functions it is used with *)

\* os.path.join(cache_path, scheme, netloc, port, *path.split('/')): empty
\* components vanish, except that an empty last one leaves a trailing "/".
local_path(url) ==
    [dirs  |-> SelectSeq(url, LAMBDA s : s # ""),
     slash |-> url[Len(url)] = ""]

Front(s) == SubSeq(s, 1, Len(s) - 1)

\* os.path.dirname: the node that must be a directory for path to be opened.
dirname(path) == IF path.slash THEN path.dirs ELSE Front(path.dirs)

Prefixes(d) == {SubSeq(d, 1, k) : k \in 0..Len(d)}

\* Names of the directory entries below the cache root (<<>> is the root).
Nodes == UNION {Prefixes(local_path(u).dirs) : u \in URLs}

NoNode == [kind |-> "none", has |-> FALSE, inventory |-> EmptyInv, url |-> NoUrl]
DirNode == [kind |-> "dir", has |-> FALSE, inventory |-> EmptyInv, url |-> NoUrl]
EmptyShelf == [kind |-> "file", has |-> FALSE, inventory |-> EmptyInv, url |-> NoUrl]

\* os.path.exists: "x/" exists only if x is a directory.
exists(f, path) ==
    IF path.slash THEN f[path.dirs].kind = "dir" ELSE f[path.dirs].kind # "none"

isdir(f, d) == f[d].kind = "dir"

\* os.makedirs(d) raises when d or an ancestor of d is a regular file.
makedirs_fails(f, d) == \E p \in Prefixes(d) : f[p].kind = "file"

makedirs(f, d) == [n \in Nodes |-> IF n \in Prefixes(d) THEN DirNode ELSE f[n]]

\* mkdirp(path): the file system afterwards.
mkdirp(f, d) == IF isdir(f, d) THEN f ELSE makedirs(f, d)

mkdirp_raises(f, d) == ~isdir(f, d) /\ makedirs_fails(f, d)

\* shelve.open(path) (flag 'c'): fails on a directory or a "x/" name,
\* creates an empty shelf where nothing exists, opens an existing one.
shelve_open_fails(f, path) ==
    path.slash \/ f[path.dirs].kind = "dir" \/ ~isdir(f, dirname(path))

\* Variant: flag 'n', which always makes a new, empty shelf.
shelve_open_new(f, path) == [f EXCEPT ![path.dirs] = EmptyShelf]

shelve_open(f, path) ==
    IF f[path.dirs].kind = "none" THEN [f EXCEPT ![path.dirs] = EmptyShelf] ELSE f

-----------------------------------------------------------------------------
(* read_inventory, inventory_names *)

\* read_inventory leaves invdata unbound (and raises) on any other first line.
header_ok(line) ==
    line \in {"# Sphinx inventory version 1", "# Sphinx inventory version 2"}

\* The parsed inventory: doctype -> name -> (project, location, display);
\* locations are joined to the url the document was read from.
read_inventory(resp, url) ==
    [t \in DOMAIN resp.body |->
        [n \in resp.body[t] |-> [project |-> resp.body, location |-> <<url, n>>]]]

inventory_names(inv) == UNION {DOMAIN inv[t] : t \in DOMAIN inv}

Index(url, path, names) == [url |-> url, local_path |-> path, names |-> names]

Document(index) == [url |-> index.url, local_path |-> index.local_path]

Topic(doctype, match) ==
    [type |-> doctype, project |-> match.project, location |-> match.location]

-----------------------------------------------------------------------------
(* State *)

VARIABLES
    fs,       \* node name -> directory entry below the cache root (shelves included)
    ginv,     \* the gindex shelf: url -> Index
    pc,       \* per instance: the statement of add_url it is about to execute
    call,     \* per instance: the add_url call in progress, or the last one ended
    gidx,     \* per instance: _global_index
    icache,   \* per instance: _inventory_cache, local path -> inventory
    res,      \* per instance: what the last lookup since the last add_url yielded
    ncalls    \* add_url calls made so far

vars == <<fs, ginv, pc, call, gidx, icache, res, ncalls>>

\* url, inv: the argument and the local variable inv of add_url.  The rest
\* records the call: how it ended, whether it asked for the document, whether
\* it got and parsed it, whether it changed a file or a shelf, whether its
\* write replaced another inventory; and of the call before it: how its url
\* relates to this one, how it ended, whether it parsed a document.
NoCall ==
    [url |-> NoUrl, inv |-> EmptyInv, outcome |-> "none",
     fetched |-> FALSE, parsed |-> FALSE, wrote |-> FALSE, overwrote |-> FALSE,
     prevrel |-> "none", prevout |-> "none", prevparsed |-> FALSE]

NoResult == [name |-> "", topics |-> <<>>, err |-> FALSE]

\* The url without its trailing slash.
strip(url) ==
    IF Len(url) > 1 /\ url[Len(url)] = "" THEN SubSeq(url, 1, Len(url) - 1) ELSE url

relation(prev, url) ==
    CASE prev = NoUrl -> "none"
      [] prev # NoUrl /\ prev = url -> "same"
      [] prev # NoUrl /\ prev # url /\ strip(prev) = strip(url) -> "equiv"
      [] OTHER -> "other"

\* DocInventory.__init__ and the class attribute _global_index = None.
NewMemo == [built |-> FALSE, map |-> <<>>]

Init ==
    /\ fs = [n \in Nodes |-> NoNode]
    /\ ginv = <<>>
    /\ pc = [i \in Inst |-> "idle"]
    /\ call = [i \in Inst |-> NoCall]
    /\ gidx = [i \in Inst |-> NewMemo]
    /\ icache = [i \in Inst |-> <<>>]
    /\ res = [i \in Inst |-> NoResult]
    /\ ncalls = 0

-----------------------------------------------------------------------------
(* is_cached, global_index, get_inventory, cached_inventory, lookup *)

\* Variant: os.path.isdir in place of os.path.exists.
is_cached_isdir(f, url) == isdir(f, local_path(url).dirs)

is_cached(f, url) == exists(f, local_path(url))

RECURSIVE SetToSeq(_)
SetToSeq(S) ==
    IF S = {} THEN <<>>
    ELSE LET x == CHOOSE x \in S : TRUE IN <<x>> \o SetToSeq(S \ {x})

\* The dict built from the gindex shelf: name -> list of Document, one
\* Document per Index whose names hold the name.
build_index(g) ==
    [n \in UNION {g[u].names : u \in DOMAIN g} |->
        LET us == SelectSeq(SetToSeq(DOMAIN g), LAMBDA u : n \in g[u].names)
        IN  [k \in 1..Len(us) |-> Document(g[us[k]])]]

\* global_index(): the memo is returned only when it is a non-empty dict.
global_index(memo, g) ==
    IF memo.built /\ DOMAIN memo.map # {} THEN memo.map ELSE build_index(g)

\* The Topics one inventory gives for a name: one per doctype holding it.
topics_of(inv, name) ==
    LET ts == SelectSeq(SetToSeq(DOMAIN inv), LAMBDA t : name \in DOMAIN inv[t])
    IN  [k \in 1..Len(ts) |-> Topic(ts[k], inv[ts[k]][name])]

\* get_inventory(url): opens the url's shelf (creating an empty one where none
\* exists) and reads its 'inventory' key.
get_inventory(f, url) ==
    LET p == local_path(url) IN
    IF shelve_open_fails(f, p) THEN [err |-> TRUE, fs |-> f, inv |-> EmptyInv]
    ELSE LET f2 == shelve_open(f, p) IN
         IF f2[p.dirs].has
         THEN [err |-> FALSE, fs |-> f2, inv |-> f2[p.dirs].inventory]
         ELSE [err |-> TRUE, fs |-> f2, inv |-> EmptyInv]

\* cached_inventory(path, url)
cached_inventory(cache, f, doc) ==
    IF doc.local_path \in DOMAIN cache
    THEN [err |-> FALSE, fs |-> f, inv |-> cache[doc.local_path], cache |-> cache]
    ELSE LET g == get_inventory(f, doc.url) IN
         [err |-> g.err, fs |-> g.fs, inv |-> g.inv,
          cache |-> IF g.err THEN cache ELSE (doc.local_path :> g.inv) @@ cache]

RECURSIVE lookup_from(_, _, _, _, _, _)
lookup_from(docs, k, name, cache, f, acc) ==
    IF k > Len(docs)
    THEN [topics |-> acc, err |-> FALSE, cache |-> cache, fs |-> f]
    ELSE LET c == cached_inventory(cache, f, docs[k]) IN
         IF c.err
         THEN [topics |-> acc, err |-> TRUE, cache |-> c.cache, fs |-> c.fs]
         ELSE lookup_from(docs, k + 1, name, c.cache, c.fs,
                          acc \o topics_of(c.inv, name))

\* Variant: global_index()[name] in place of global_index().get(name, []).
lookup_no_default(memo, cache, g, f, name) ==
    LET gi == global_index(memo, g) IN
    IF name \in DOMAIN gi
    THEN lookup_from(gi[name], 1, name, cache, f, <<>>)
    ELSE [topics |-> <<>>, err |-> TRUE, cache |-> cache, fs |-> f]

\* lookup(name), consumed to its end, on an instance with the given memo and
\* cache: the Topics yielded, whether it raised, the cache and files after.
lookup(memo, cache, g, f, name) ==
    LET gi == global_index(memo, g)
        docs == IF name \in DOMAIN gi THEN gi[name] ELSE <<>>
    IN  lookup_from(docs, 1, name, cache, f, <<>>)

-----------------------------------------------------------------------------
(* Actions *)

Ended(i, outcome) ==
    /\ pc' = [pc EXCEPT ![i] = "idle"]
    /\ call' = [call EXCEPT ![i].outcome = outcome, ![i].inv = EmptyInv]

path_of(i) == local_path(call[i].url)

\* Variant: the index entry is written before the inventory is stored.
next_stmt_index_first(stmt) ==
    CASE stmt = "mkdirp"  -> "urlopen"
      [] stmt = "urlopen" -> "ginv"
      [] stmt = "ginv"    -> "open"
      [] stmt = "open"    -> "write"
      [] stmt = "write"   -> "idle"

\* The statement that follows each statement of add_url / download.
next_stmt(stmt) ==
    CASE stmt = "mkdirp"  -> "urlopen"
      [] stmt = "urlopen" -> "open"
      [] stmt = "open"    -> "write"
      [] stmt = "write"   -> "ginv"
      [] stmt = "ginv"    -> "idle"

\* add_url(url), line 184: the is_cached test; a cached url returns at once.
AddUrl(i, url) ==
    /\ pc[i] = "idle"
    /\ ncalls < MaxCalls
    /\ ncalls' = ncalls + 1
    /\ LET c == [url |-> url, inv |-> EmptyInv, outcome |-> "running",
                 fetched |-> FALSE, parsed |-> FALSE, wrote |-> FALSE,
                 overwrote |-> FALSE,
                 prevrel |-> relation(call[i].url, url),
                 prevout |-> call[i].outcome,
                 prevparsed |-> call[i].parsed]
       IN  IF is_cached(fs, url)
           THEN /\ call' = [call EXCEPT ![i] = [c EXCEPT !.outcome = "ok"]]
                /\ pc' = pc
           ELSE /\ call' = [call EXCEPT ![i] = c]
                /\ pc' = [pc EXCEPT ![i] = "mkdirp"]
    /\ res' = [res EXCEPT ![i] = NoResult]
    /\ UNCHANGED <<fs, ginv, gidx, icache>>

\* download, line 157: mkdirp(os.path.dirname(path)).
Mkdirp(i) ==
    /\ pc[i] = "mkdirp"
    /\ LET d == dirname(path_of(i)) IN
       IF mkdirp_raises(fs, d)
       THEN /\ Ended(i, "OSError")
            /\ fs' = fs
       ELSE /\ fs' = mkdirp(fs, d)
            /\ pc' = [pc EXCEPT ![i] = next_stmt("mkdirp")]
            /\ call' = [call EXCEPT ![i].wrote = @ \/ (fs' # fs)]
    /\ UNCHANGED <<ginv, gidx, icache, res, ncalls>>

\* download, lines 158-159: urlopen and read_inventory.
UrlOpen(i, resp) ==
    /\ pc[i] = "urlopen"
    /\ IF ~resp.ok
       THEN /\ pc' = [pc EXCEPT ![i] = "idle"]
            /\ call' = [call EXCEPT ![i].outcome = "URLError", ![i].fetched = TRUE]
       ELSE IF ~header_ok(resp.line)
       THEN /\ pc' = [pc EXCEPT ![i] = "idle"]
            /\ call' = [call EXCEPT ![i].outcome = "UnboundLocalError",
                                    ![i].fetched = TRUE]
       ELSE /\ pc' = [pc EXCEPT ![i] = next_stmt("urlopen")]
            /\ call' = [call EXCEPT ![i].inv = read_inventory(resp, call[i].url),
                                    ![i].fetched = TRUE, ![i].parsed = TRUE]
    /\ UNCHANGED <<fs, ginv, gidx, icache, res, ncalls>>

\* download, line 160: shelve.open of the url's local path.
Open(i) ==
    /\ pc[i] = "open"
    /\ IF shelve_open_fails(fs, path_of(i))
       THEN /\ Ended(i, "DBError")
            /\ fs' = fs
       ELSE /\ fs' = shelve_open(fs, path_of(i))
            /\ pc' = [pc EXCEPT ![i] = next_stmt("open")]
            /\ call' = [call EXCEPT ![i].wrote = @ \/ (fs' # fs)]
    /\ UNCHANGED <<ginv, gidx, icache, res, ncalls>>

\* Variant: the inventory goes under another key than get_inventory reads.
store_inventory_other_key(node, inv, url) == [node EXCEPT !.url = url]

\* The shelf after lines 161-163.
store_inventory(node, inv, url) ==
    [node EXCEPT !.has = TRUE, !.inventory = inv, !.url = url]

\* download, lines 161-163: the three keys are written and the shelf closed.
Write(i) ==
    /\ pc[i] = "write"
    /\ fs' = [fs EXCEPT ![path_of(i).dirs] =
                 store_inventory(@, call[i].inv, call[i].url)]
    /\ pc' = [pc EXCEPT ![i] = next_stmt("write")]
    /\ call' = [call EXCEPT ![i].wrote = TRUE,
                            ![i].overwrote =
                                /\ fs[path_of(i).dirs].has
                                /\ fs[path_of(i).dirs].inventory # call[i].inv]
    /\ UNCHANGED <<ginv, gidx, icache, res, ncalls>>

\* add_url, lines 186-188: ginv[url] = Index(url, path, names).
GinvWrite(i) ==
    /\ pc[i] = "ginv"
    /\ ginv' = (call[i].url :>
                  Index(call[i].url, path_of(i), inventory_names(call[i].inv)))
               @@ ginv
    /\ pc' = [pc EXCEPT ![i] = next_stmt("ginv")]
    /\ call' = [call EXCEPT ![i].outcome = "ok", ![i].wrote = TRUE,
                            ![i].inv = EmptyInv]
    /\ UNCHANGED <<fs, gidx, icache, res, ncalls>>

\* An exception (I/O error, interrupt) leaves add_url at any statement: no
\* statement of add_url or download catches anything.
Abort(i) ==
    /\ pc[i] # "idle"
    /\ Ended(i, "aborted")
    /\ UNCHANGED <<fs, ginv, gidx, icache, res, ncalls>>

\* lookup(name), consumed to its end.
Lookup(i, name) ==
    /\ pc[i] = "idle"
    /\ LET r == lookup(gidx[i], icache[i], ginv, fs, name) IN
       /\ gidx' = [gidx EXCEPT ![i] = [built |-> TRUE,
                                       map |-> global_index(gidx[i], ginv)]]
       /\ icache' = [icache EXCEPT ![i] = r.cache]
       /\ fs' = r.fs
       /\ res' = [res EXCEPT ![i] = [name |-> name, topics |-> r.topics,
                                     err |-> r.err]]
    /\ UNCHANGED <<ginv, pc, call, ncalls>>

\* A new DocInventory object (every command of the CLI makes one).
New(i) ==
    /\ pc[i] = "idle"
    /\ gidx[i] # NewMemo \/ icache[i] # <<>>
    /\ gidx' = [gidx EXCEPT ![i] = NewMemo]
    /\ icache' = [icache EXCEPT ![i] = <<>>]
    /\ UNCHANGED <<fs, ginv, pc, call, res, ncalls>>

Step(i) ==
    \/ \E url \in URLs : AddUrl(i, url)
    \/ Mkdirp(i)
    \/ \E resp \in Responses : UrlOpen(i, resp)
    \/ Open(i)
    \/ Write(i)
    \/ GinvWrite(i)
    \/ Abort(i)
    \/ \E name \in Names : Lookup(i, name)
    \/ New(i)

\* One writer: a single DocInventory at a time uses the store.
Next == Step(1)

Spec == Init /\ [][Next]_vars

\* The statements of add_url, as a process running the add command executes
\* them.
Writer(i) ==
    \/ \E url \in URLs : AddUrl(i, url)
    \/ Mkdirp(i)
    \/ \E resp \in Responses : UrlOpen(i, resp)
    \/ Open(i)
    \/ Write(i)
    \/ GinvWrite(i)
    \/ Abort(i)

\* Two processes on one base directory, their add_url calls interleaved
\* statement by statement: nothing in the code locks the store.
NextRace == \E i \in Inst : Writer(i)

SpecRace == Init /\ [][NextRace]_vars

-----------------------------------------------------------------------------
(* Properties *)

Range(q) == {q[k] : k \in 1..Len(q)}

\* The url's shelf holds an 'inventory' key.
HasInventory(f, url) ==
    LET n == local_path(url).dirs IN f[n].kind = "file" /\ f[n].has

StoredInventory(f, url) == f[local_path(url).dirs].inventory

\* What lookup(name) would yield on instance i in the current state.
LookupNow(i, name) == lookup(gidx[i], icache[i], ginv, fs, name)

\* The last call of instance i has ended.
Over(i) == pc[i] = "idle" /\ call[i].outcome # "none"

\* C1: an add_url(u) that directly follows an add_url(u) which returned ends
\* at its is_cached test: it returns without asking for the document and
\* without changing a file, a shelf or the global index.
C1_AddUrlIdempotent ==
    \A i \in Inst :
        (call[i].prevrel = "same" /\ call[i].prevout = "ok")
            => /\ pc[i] = "idle"
               /\ call[i].outcome = "ok"
               /\ ~call[i].fetched
               /\ ~call[i].wrote

\* C1 witness: a url was stored and indexed by one call and added again.
C1_Witness ==
    /\ Over(1)
    /\ call[1].prevrel = "same" /\ call[1].prevout = "ok" /\ call[1].prevparsed
    /\ HasInventory(fs, call[1].url)
    /\ call[1].url \in DOMAIN ginv

\* C2: after an add_url(u) whose fetch failed, nothing of the store has
\* changed since the call began and is_cached(u) is false.
C2_FetchFailureLeavesStore ==
    \A i \in Inst :
        (Over(i) /\ call[i].outcome = "URLError")
            => (~call[i].wrote /\ ~is_cached(fs, call[i].url))

\* C3: every url in the global index has its inventory stored, in every
\* state, those inside add_url and those an aborted add_url leaves included.
C3_IndexImpliesInventory ==
    \A u \in DOMAIN ginv : HasInventory(fs, ginv[u].url)

\* C3 witness: inside a later add_url, between the creation of its shelf and
\* the writing of its inventory, with an earlier url indexed.
C3_Witness ==
    /\ pc[1] = "write"
    /\ DOMAIN ginv # {}
    /\ ~HasInventory(fs, call[1].url)

\* C4: once add_url(u) has returned after indexing u, lookup(name) on the
\* instance yields u's Topics for every name of u's inventory.
C4_LookupSeesRegistration ==
    \A i \in Inst : \A name \in Names : \A u \in DOMAIN ginv :
        pc[i] = "idle"
            => Range(topics_of(StoredInventory(fs, u), name))
                   \subseteq Range(LookupNow(i, name).topics)

\* C5: after an add_url(u) that failed on the first line of the document,
\* nothing of the store has changed since the call began and is_cached(u)
\* is false.
C5_MalformedHeaderLeavesStore ==
    \A i \in Inst :
        (Over(i) /\ call[i].outcome = "UnboundLocalError")
            => (~call[i].wrote /\ ~is_cached(fs, call[i].url))

\* C6: a stored inventory and an index entry, once there, are never changed
\* or removed; an inventory appears only by the write of a call that fetched
\* and parsed it, an index entry only by the index write of a call for its url.
C6_StoreEntryLifecycle ==
    [][ /\ \A n \in Nodes : fs[n].has => fs'[n] = fs[n]
        /\ \A u \in DOMAIN ginv : u \in DOMAIN ginv' /\ ginv'[u] = ginv[u]
        /\ \A n \in Nodes :
              (~fs[n].has /\ fs'[n].has)
                  => \E i \in Inst : /\ pc[i] = "write"
                                     /\ path_of(i).dirs = n
                                     /\ call[i].parsed
                                     /\ fs'[n].inventory = call[i].inv
        /\ \A u \in DOMAIN ginv' :
              u \notin DOMAIN ginv
                  => \E i \in Inst : pc[i] = "ginv" /\ call[i].url = u ]_vars

\* C6 witness: with one url stored and indexed, a later call has stored and
\* indexed another.
C6_Witness ==
    /\ Over(1) /\ call[1].outcome = "ok" /\ call[1].parsed
    /\ \E u \in DOMAIN ginv : u # call[1].url /\ HasInventory(fs, u)

\* C7: two urls that differ only in the trailing slash, added one after the
\* other with the document served well: one fetch in all, and afterwards one
\* stored inventory and one index entry for the pair.
C7_EquivalentUrlsOneKey ==
    \A i \in Inst :
        (Over(i) /\ call[i].prevrel = "equiv" /\ call[i].prevparsed
                 /\ call[i].prevout # "aborted" /\ call[i].outcome # "aborted")
            => /\ ~call[i].fetched
               /\ HasInventory(fs, strip(call[i].url))
               /\ Cardinality({u \in DOMAIN ginv :
                                  strip(u) = strip(call[i].url)}) = 1

\* The Topics the stored inventories of the indexed urls hold for a name.
ExpectedTopics(name) ==
    UNION {{Topic(t, StoredInventory(fs, u)[t][name]) :
               t \in {t \in DOMAIN StoredInventory(fs, u) :
                          name \in DOMAIN StoredInventory(fs, u)[t]}} :
           u \in DOMAIN ginv}

IndexedPairs(name) ==
    {<<u, t>> \in (DOMAIN ginv) \X {"py:class", "py:module", "py:function"} :
        /\ t \in DOMAIN StoredInventory(fs, u)
        /\ name \in DOMAIN StoredInventory(fs, u)[t]}

\* C8: lookup(name) yields exactly one Topic for each pair (indexed url,
\* doctype) whose stored inventory holds the name under the doctype: none
\* missing, none more, none twice.
C8_LookupExact ==
    \A i \in Inst : \A name \in Names :
        pc[i] = "idle"
            => LET r == LookupNow(i, name) IN
               /\ ~r.err
               /\ Range(r.topics) = ExpectedTopics(name)
               /\ Len(r.topics) = Cardinality(IndexedPairs(name))

Without(n) == [fs EXCEPT ![n] = NoNode]

Rederived(u, name) ==
    \E n \in Nodes : /\ fs[n].kind = "file" /\ fs[n].has /\ fs[n].url = u
                     /\ name \in inventory_names(fs[n].inventory)

\* C11: whenever no add_url is in progress, the global index lists a url
\* under a name exactly when a stored inventory of that url holds the name.
C11_IndexIsDerived ==
    (\A i \in Inst : pc[i] = "idle")
        => \A u \in URLs : \A name \in Names :
              (u \in DOMAIN ginv /\ name \in ginv[u].names) <=> Rederived(u, name)

\* C12: an add_url(u) that directly follows an add_url(u) which failed in the
\* fetch or the parse asks for the document again, and when it gets and
\* parses one and is not interrupted, u's inventory is stored and indexed.
C12_FailedFetchRetryable ==
    \A i \in Inst :
        (Over(i) /\ call[i].prevrel = "same"
                 /\ call[i].prevout \in {"URLError", "UnboundLocalError"})
            => /\ call[i].outcome # "aborted" => call[i].fetched
               /\ (call[i].parsed /\ call[i].outcome # "aborted")
                     => /\ call[i].outcome = "ok"
                        /\ HasInventory(fs, call[i].url)
                        /\ call[i].url \in DOMAIN ginv

\* C13: whenever no add_url is in progress, is_cached(u) is true exactly when
\* an inventory is stored at u's local path.
C13_IsCachedExact ==
    (\A i \in Inst : pc[i] = "idle")
        => \A u \in URLs : is_cached(fs, u) <=> HasInventory(fs, u)

\* C14: with two writers interleaved, once both are out of add_url every
\* url in the global index has its inventory stored.
C14_RaceKeepsIndexInvariant ==
    (\A i \in Inst : pc[i] = "idle")
        => \A u \in DOMAIN ginv : HasInventory(fs, u)

\* C14 witness: both writers were given the same url, not yet stored, both
\* passed the is_cached test, fetched, wrote and returned, and the later
\* write replaced the inventory the earlier one had stored.
C14_Witness ==
    /\ Over(1) /\ Over(2)
    /\ call[1].url = call[2].url
    /\ \A i \in Inst : /\ call[i].outcome = "ok" /\ call[i].prevrel = "none"
                       /\ call[i].fetched /\ call[i].parsed /\ call[i].wrote
    /\ \E i \in Inst : call[i].overwrote
    /\ HasInventory(fs, call[1].url) /\ call[1].url \in DOMAIN ginv

C16_CachesCoherent ==
    \A i \in Inst :
        /\ \A p \in DOMAIN icache[i] :
              fs[p.dirs].has /\ icache[i][p] = fs[p.dirs].inventory
        /\ DOMAIN gidx[i].map # {}
              => /\ DOMAIN gidx[i].map = DOMAIN build_index(ginv)
                 /\ \A name \in DOMAIN gidx[i].map :
                       Range(gidx[i].map[name]) = Range(build_index(ginv)[name])

====
